---- MODULE Spec2Model ----
(***************************************************************************)
(* Model of the reference-derivation and evaluation pipeline of           *)
(* Python/34_Segmentation_Evaluation.ipynb: sitk.LabelVoting, sitk.STAPLE  *)
(* followed by thresholding, LabelOverlapMeasuresImageFilter and           *)
(* HausdorffDistanceImageFilter, each as the toolkit filter computes it.   *)
(***************************************************************************)
EXTENDS Integers, Naturals, Sequences, FiniteSets, TLC

(* ---------------------------------------------------------------------- *)
(* Bounds                                                                  *)
(* ---------------------------------------------------------------------- *)
MaxRaters == 3
MaxLabel == 2
VoteVoxels == {"v1", "v2"}

(* labelForUndecidedPixels = 10 in the notebook *)
labelForUndecidedPixels == 10

VARIABLES vRaters, vOut, vpc

voteVars == <<vRaters, vOut, vpc>>

VARIABLES grid, ref, cand, spacing, epc, overlap, hausdorffSq, cubeAxis

evalVars == <<grid, ref, cand, spacing, epc, overlap, hausdorffSq, cubeAxis>>

VARIABLES sRaters, W, p, q, lastP, lastQ, gT, iter, maxIter, flag, spc,
          threshold, conditions, segSTAPLE

stapleVars == <<sRaters, W, p, q, lastP, lastQ, gT, iter, maxIter, flag, spc,
                threshold, conditions, segSTAPLE>>

(* ---------------------------------------------------------------------- *)
(* Real values: exact rationals, IEEE-754 NaN and infinities, and          *)
(* NumericTraits<double>::max() returned by the overlap filter.            *)
(* ---------------------------------------------------------------------- *)
(* Each operator binds its arguments to values once (x \in {e}), so that  *)
(* nested arithmetic is evaluated once per argument in every context.     *)
RECURSIVE Gcd(_, _)
Gcd(a, b) == IF b = 0 THEN a ELSE CHOOSE g \in {Gcd(b, a % b)} : TRUE

Abs(a) == IF a < 0 THEN -a ELSE a

FracV(n, d) ==
    LET g == CHOOSE x \in {Gcd(Abs(n), Abs(d))} : TRUE
        s == IF d < 0 THEN -1 ELSE 1
    IN  [t |-> "r", n |-> s * (n \div g), d |-> s * (d \div g)]

Frac(n, d) == CHOOSE r \in {FracV(nv, dv) : nv \in {n}, dv \in {d}} : TRUE

NaN == [t |-> "nan"]
Inf(sgn) == [t |-> "inf", s |-> sgn]
DblMax == [t |-> "max"]

Num(k) == Frac(k, 1)

Sign(x) == IF x.t = "inf" THEN x.s ELSE IF x.n > 0 THEN 1 ELSE IF x.n < 0 THEN -1 ELSE 0

NegV(x) == CASE x.t = "r" -> Frac(-x.n, x.d)
             [] x.t = "inf" -> Inf(-x.s)
             [] OTHER -> x

Neg(x) == CHOOSE r \in {NegV(xv) : xv \in {x}} : TRUE

AddV(x, y) ==
    CASE x.t = "nan" \/ y.t = "nan" -> NaN
      [] x.t = "inf" /\ y.t = "inf" -> IF x.s = y.s THEN x ELSE NaN
      [] x.t = "inf" -> x
      [] y.t = "inf" -> y
      [] OTHER -> Frac(x.n * y.d + y.n * x.d, x.d * y.d)

Add(x, y) == CHOOSE r \in {AddV(xv, yv) : xv \in {x}, yv \in {y}} : TRUE

Sub(x, y) == Add(x, Neg(y))

MulV(x, y) ==
    CASE x.t = "nan" \/ y.t = "nan" -> NaN
      [] x.t = "inf" \/ y.t = "inf" ->
           IF Sign(x) = 0 \/ Sign(y) = 0 THEN NaN ELSE Inf(Sign(x) * Sign(y))
      [] OTHER -> Frac(x.n * y.n, x.d * y.d)

Mul(x, y) == CHOOSE r \in {MulV(xv, yv) : xv \in {x}, yv \in {y}} : TRUE

DivV(x, y) ==
    CASE x.t = "nan" \/ y.t = "nan" -> NaN
      [] x.t = "inf" /\ y.t = "inf" -> NaN
      [] x.t = "inf" -> IF Sign(y) = 0 THEN x ELSE Inf(x.s * Sign(y))
      [] y.t = "inf" -> Num(0)
      [] y.n = 0 -> IF x.n = 0 THEN NaN ELSE Inf(Sign(x))
      [] OTHER -> Frac(x.n * y.d, x.d * y.n)

Div(x, y) == CHOOSE r \in {DivV(xv, yv) : xv \in {x}, yv \in {y}} : TRUE

(* x > y as the C++ comparison: false whenever an operand is NaN *)
Greater(x, y) ==
    CASE x.t = "nan" \/ y.t = "nan" -> FALSE
      [] x.t = "inf" /\ y.t = "inf" -> x.s > y.s
      [] x.t = "inf" -> x.s = 1
      [] y.t = "inf" -> y.s = -1
      [] OTHER -> x.n * y.d > y.n * x.d

(* ---------------------------------------------------------------------- *)
(* Evaluation of one (reference, candidate) pair: the loop body of the     *)
(* "Evaluate segmentations" cell.                                          *)
(* ---------------------------------------------------------------------- *)
GridLen == 2
EvalSpacings == {<<1, 1, 1>>, <<2, 1, 1>>}
MaxSide == 2
CubeSpacingValues == {1, 2, 3}

EvalGrid == (0..(GridLen - 1)) \X (0..1) \X {0}


(* LabelOverlapMeasuresImageFilter accumulates, for the foreground label   *)
(* (the background label 0 is excluded from the combined measures), the   *)
(* source (reference) and target (candidate) counts, their intersection,  *)
(* union and the two complements; every getter returns                    *)
(* NumericTraits<double>::max() when its denominator is zero.             *)
OverlapDivNoGuard(num, den) == Div(Num(num), Num(den))

OverlapDiv(num, den) == IF den = 0 THEN DblMax ELSE Frac(num, den)

(* GetDiceCoefficient() == GetMeanOverlap() == 2*uo/(1+uo) with           *)
(* uo = GetUnionOverlap(); for uo = DBL_MAX, 2*uo overflows to +inf and    *)
(* 1+uo rounds to DBL_MAX, giving +inf.                                   *)
MeanOverlap(uo) ==
    IF uo = DblMax THEN Inf(1)
    ELSE Div(Mul(Num(2), uo), Add(Num(1), uo))

OverlapMeasuresUnionJaccard(source, target) ==
    LET S == Cardinality(source)
        T == Cardinality(target)
        I == Cardinality(source \cap target)
        U == Cardinality(source \cup target)
        SC == Cardinality(source \ target)
        TC == Cardinality(target \ source)
    IN  [jaccard |-> OverlapDiv(I, S + T),
         dice |-> MeanOverlap(OverlapDiv(I, S + T)),
         volume_similarity |-> OverlapDiv(2 * (S - T), S + T),
         false_negative |-> OverlapDiv(SC, S),
         false_positive |-> OverlapDiv(TC, T)]

OverlapMeasuresSourceVolume(source, target) ==
    LET S == Cardinality(source)
        T == Cardinality(target)
        I == Cardinality(source \cap target)
        U == Cardinality(source \cup target)
        SC == Cardinality(source \ target)
        TC == Cardinality(target \ source)
    IN  [jaccard |-> OverlapDiv(I, U),
         dice |-> MeanOverlap(OverlapDiv(I, U)),
         volume_similarity |-> OverlapDiv(2 * (S - T), S),
         false_negative |-> OverlapDiv(SC, S),
         false_positive |-> OverlapDiv(TC, T)]

OverlapMeasures(source, target) ==
    LET S == Cardinality(source)
        T == Cardinality(target)
        I == Cardinality(source \cap target)
        U == Cardinality(source \cup target)
        SC == Cardinality(source \ target)
        TC == Cardinality(target \ source)
    IN  [jaccard |-> OverlapDiv(I, U),
         dice |-> MeanOverlap(OverlapDiv(I, U)),
         volume_similarity |-> OverlapDiv(2 * (S - T), S + T),
         false_negative |-> OverlapDiv(SC, S),
         false_positive |-> OverlapDiv(TC, T)]

(* HausdorffDistanceImageFilter: max of the two directed distances; the   *)
(* directed distance from image1 to image2 is the maximum, over image1's  *)
(* foreground voxels, of image2's SignedMaurerDistanceMap clamped at 0.   *)
(* Distances are kept squared (in physical units).                        *)
DistSqVoxelUnits(a, b, sp) ==
    LET dx == a[1] - b[1]
        dy == a[2] - b[2]
        dz == a[3] - b[3]
    IN  dx * dx + dy * dy + dz * dz

DistSq(a, b, sp) ==
    LET dx == (a[1] - b[1]) * sp[1]
        dy == (a[2] - b[2]) * sp[2]
        dz == (a[3] - b[3]) * sp[3]
    IN  dx * dx + dy * dy + dz * dz

FaceNeighbours(v) ==
    {<<v[1] + 1, v[2], v[3]>>, <<v[1] - 1, v[2], v[3]>>,
     <<v[1], v[2] + 1, v[3]>>, <<v[1], v[2] - 1, v[3]>>,
     <<v[1], v[2], v[3] + 1>>, <<v[1], v[2], v[3] - 1>>}

(* Object contour used by the Maurer transform: foreground voxels with a   *)
(* face neighbour in the image that is background.                        *)
Contour(dom, B) == {b \in B : \E w \in FaceNeighbours(b) \cap dom : w \notin B}

MinOf(S) == CHOOSE m \in S : \A x \in S : m <= x
MaxOf(S) == CHOOSE m \in S : \A x \in S : m >= x

(* Hausdorff result: a squared distance, or not computed.                 *)
Dist(sq) == [fin |-> TRUE, sq |-> sq]
NoObjectDist == [fin |-> FALSE, sq |-> 0]

(* Signed Maurer distance of voxel v to a non-empty object B, clamped at   *)
(* 0: voxels of B lie inside or on the contour (value <= 0, clamped to 0). *)
ClampedMaurerSq(dom, B, v, sp) ==
    IF v \in B THEN 0
    ELSE MinOf({DistSq(v, c, sp) : c \in Contour(dom, B)})

(* Defined for non-empty A and B: DirectedHausdorffDistanceImageFilter    *)
(* raises "pixelcount is equal to 0" when image1 has no foreground.       *)
DirectedHausdorffSq(dom, A, B, sp) ==
    MaxOf({ClampedMaurerSq(dom, B, a, sp) : a \in A})

HausdorffDistanceSq(dom, A, B, sp) ==
    Dist(MaxOf({DirectedHausdorffSq(dom, A, B, sp), DirectedHausdorffSq(dom, B, A, sp)}))

NoOverlap == [jaccard |-> NaN, dice |-> NaN, volume_similarity |-> NaN,
              false_negative |-> NaN, false_positive |-> NaN]

EvalInit ==
    /\ grid = EvalGrid
    /\ ref \in SUBSET EvalGrid
    /\ cand \in SUBSET EvalGrid
    /\ spacing \in EvalSpacings
    /\ epc = "start"
    /\ overlap = NoOverlap
    /\ hausdorffSq = NoObjectDist
    /\ cubeAxis = 0

(* Reference: cube of side s at the origin; candidate: the same cube       *)
(* shifted by one voxel along one axis; the image has a one-voxel margin.  *)
Cube(s) == (0..(s - 1)) \X (0..(s - 1)) \X (0..(s - 1))
Shift(S, axis) == {[v EXCEPT ![axis] = v[axis] + 1] : v \in S}


CubeInit ==
    /\ \E s \in 1..MaxSide, ax \in 1..3 :
          /\ grid = (0..(s + 1)) \X (0..(s + 1)) \X (0..(s + 1))
          /\ ref = Cube(s)
          /\ cand = Shift(Cube(s), ax)
          /\ cubeAxis = ax
    /\ spacing \in [1..3 -> CubeSpacingValues]
    /\ epc = "start"
    /\ overlap = NoOverlap
    /\ hausdorffSq = NoObjectDist

(* overlap_measures_filter.Execute(reference_segmentation, seg) and        *)
(* hausdorff_distance_filter.Execute(reference_segmentation, seg)          *)
Evaluate ==
    /\ epc = "start"
    /\ overlap' = OverlapMeasures(ref, cand)
    /\ IF ref = {} \/ cand = {}
       THEN (* hausdorff_distance_filter.Execute raises; the overlap     *)
            (* results were already stored                               *)
            /\ hausdorffSq' = hausdorffSq
            /\ epc' = "hausdorff_error"
       ELSE /\ hausdorffSq' = HausdorffDistanceSq(grid, ref, cand, spacing)
            /\ epc' = "done"
    /\ UNCHANGED <<grid, ref, cand, spacing, cubeAxis>>
    /\ UNCHANGED <<voteVars, stapleVars>>

(* ---------------------------------------------------------------------- *)
(* LabelVoting: per voxel, votes per label 0..TotalLabelCount-1, winner is *)
(* the label with strictly more votes, a tie gives the undecided label.   *)
(* ---------------------------------------------------------------------- *)
TotalLabelCount(raters) ==
    1 + (CHOOSE m \in {raters[j][v] : j \in 1..Len(raters), v \in VoteVoxels} :
            \A j \in 1..Len(raters), v \in VoteVoxels : raters[j][v] <= m)

VotesByLabel(raters, v) ==
    [l \in 0..(TotalLabelCount(raters) - 1) |->
        Cardinality({j \in 1..Len(raters) : raters[j][v] = l})]

RECURSIVE VoteFoldTieLow(_, _, _, _, _)
VoteFoldTieLow(votes, l, T, out, maxVotes) ==
    IF l >= T THEN out
    ELSE IF votes[l] > maxVotes THEN VoteFoldTieLow(votes, l + 1, T, l, votes[l])
    ELSE VoteFoldTieLow(votes, l + 1, T, out, maxVotes)

RECURSIVE VoteFold(_, _, _, _, _)
VoteFold(votes, l, T, out, maxVotes) ==
    IF l >= T THEN out
    ELSE IF votes[l] > maxVotes THEN VoteFold(votes, l + 1, T, l, votes[l])
    ELSE IF votes[l] = maxVotes
         THEN VoteFold(votes, l + 1, T, labelForUndecidedPixels, maxVotes)
         ELSE VoteFold(votes, l + 1, T, out, maxVotes)

LabelVotingPixel(raters, v) ==
    LET votes == VotesByLabel(raters, v)
    IN  VoteFold(votes, 1, TotalLabelCount(raters), 0, votes[0])

LabelVoting(raters) == [v \in VoteVoxels |-> LabelVotingPixel(raters, v)]

NoVoteOutput == [v \in VoteVoxels |-> -1]

VoteInit ==
    /\ \E n \in 1..MaxRaters :
          vRaters \in [1..n -> [VoteVoxels -> 0..MaxLabel]]
    /\ vOut = NoVoteOutput
    /\ vpc = "start"

(* reference_segmentation_majority_vote = sitk.LabelVoting(segmentations, 10) *)
Vote ==
    /\ vpc = "start"
    /\ vOut' = LabelVoting(vRaters)
    /\ vpc' = "done"
    /\ UNCHANGED vRaters
    /\ UNCHANGED <<evalVars, stapleVars>>


(* ---------------------------------------------------------------------- *)
(* STAPLE (STAPLEImageFilter::GenerateData), then "> threshold".           *)
(* ---------------------------------------------------------------------- *)
MaxStapleRaters == 3
MaxIter == 3
StapleVoxels == {"a", "b"}

(* foregroundValue = 1 in the notebook *)
foregroundValue == 1

(* threshold = 0.95 in the notebook; 0.5 is the round-trip threshold *)
Thresholds == {Frac(1, 2), Frac(19, 20)}

(* m_ConfidenceWeight default 1.0 *)
ConfidenceWeight == Num(1)

RECURSIVE SumOver(_, _)
SumOver(f, S) ==
    IF S = {} THEN Num(0)
    ELSE LET x == CHOOSE y \in S : TRUE IN Add(f[x], SumOver(f, S \ {x}))

IsFg(raters, j, v) == raters[j][v] = foregroundValue

(* Initial W: the fraction of raters labelling the voxel foreground.       *)
InitialW(raters) ==
    [v \in StapleVoxels |->
        Frac(Cardinality({j \in 1..Len(raters) : IsFg(raters, j, v)}), Len(raters))]

(* g_t = (sum of W / number of voxels) * m_ConfidenceWeight *)
PriorG(w) == Mul(Div(SumOver(w, StapleVoxels), Num(Cardinality(StapleVoxels))), ConfidenceWeight)

(* M-step for rater j: p = p_num / p_denom, q = q_num / q_denom *)
Sensitivity(raters, w, j) ==
    Div(SumOver([v \in StapleVoxels |-> IF IsFg(raters, j, v) THEN w[v] ELSE Num(0)], StapleVoxels),
        SumOver(w, StapleVoxels))

Specificity(raters, w, j) ==
    Div(SumOver([v \in StapleVoxels |-> IF IsFg(raters, j, v) THEN Num(0) ELSE Sub(Num(1), w[v])], StapleVoxels),
        SumOver([v \in StapleVoxels |-> Sub(Num(1), w[v])], StapleVoxels))

(* E-step: W = g_t*alpha1 / (g_t*alpha1 + (1-g_t)*beta1) *)
RECURSIVE Alpha(_, _, _, _)
Alpha(raters, pp, v, j) ==
    IF j = 0 THEN Num(1)
    ELSE Mul(Alpha(raters, pp, v, j - 1),
             IF IsFg(raters, j, v) THEN pp[j] ELSE Sub(Num(1), pp[j]))

RECURSIVE Beta(_, _, _, _)
Beta(raters, qq, v, j) ==
    IF j = 0 THEN Num(1)
    ELSE Mul(Beta(raters, qq, v, j - 1),
             IF IsFg(raters, j, v) THEN Sub(Num(1), qq[j]) ELSE qq[j])

EStep(raters, pp, qq, g) ==
    [v \in StapleVoxels |->
        LET a == Mul(g, Alpha(raters, pp, v, Len(raters)))
            b == Mul(Sub(Num(1), g), Beta(raters, qq, v, Len(raters)))
        IN  Div(a, Add(a, b))]

RECURSIVE SumSeq(_, _)
SumSeq(s, k) == IF k = 0 THEN Num(0) ELSE Add(SumSeq(s, k - 1), s[k])

Sq(x) == Mul(x, x)

(* rms = sqrt(sum of squared changes of p and q / (2 N)); converged when   *)
(* rms < min_rms_error = 1e-14. A NaN rms never converges. For the exact   *)
(* rationals of the model (denominators below 2^31) a non-zero mean square *)
(* exceeds 2^-31 > 1e-28, so rms < 1e-14 holds exactly when it is 0.       *)
RmsBelowMin(pp, qq, lp, lq) ==
    LET n == Len(pp)
        ms == Div(SumSeq([k \in 1..n |-> Add(Sq(Sub(qq[k], lq[k])), Sq(Sub(pp[k], lp[k])))], n),
                  Num(2 * n))
    IN  ms.t = "r" /\ ms.n = 0

NoWeights == [v \in StapleVoxels |-> Num(0)]

(* Inputs: N binary segmentations and m_MaximumIterations. Any rater set   *)
(* runs one iteration; identical rater sets (whose weights stay in        *)
(* {0, 1, NaN}) run up to MaxIter iterations, within exact arithmetic.    *)
StapleInit ==
    /\ \E n \in 2..MaxStapleRaters :
          \/ /\ \E g \in [StapleVoxels -> {0, 1}] : sRaters = [j \in 1..n |-> g]
             /\ maxIter \in 1..MaxIter
          \/ /\ sRaters \in [1..n -> [StapleVoxels -> {0, 1}]]
             /\ maxIter = 1
    /\ threshold \in Thresholds
    /\ W = NoWeights
    /\ p = <<>> /\ q = <<>> /\ lastP = <<>> /\ lastQ = <<>>
    /\ gT = Num(0)
    /\ iter = 0
    /\ flag = FALSE
    /\ spc = "start"
    /\ conditions = {}
    /\ segSTAPLE = [v \in StapleVoxels |-> 0]

(* Initial W, prior g_t, last_p = last_q = -10 *)
StapleStart ==
    /\ spc = "start"
    /\ W' = InitialW(sRaters)
    /\ gT' = PriorG(InitialW(sRaters))
    /\ lastP' = [j \in 1..Len(sRaters) |-> Num(-10)]
    /\ lastQ' = [j \in 1..Len(sRaters) |-> Num(-10)]
    /\ spc' = "loop"
    /\ UNCHANGED <<sRaters, p, q, iter, maxIter, flag, threshold, conditions, segSTAPLE>>
    /\ UNCHANGED <<voteVars, evalVars>>

(* One pass of for (iter = 0; !flag && iter < m_MaximumIterations; ++iter) *)
StapleIterate ==
    /\ spc = "loop"
    /\ ~flag
    /\ iter < maxIter
    /\ LET pp == [j \in 1..Len(sRaters) |-> Sensitivity(sRaters, W, j)]
           qq == [j \in 1..Len(sRaters) |-> Specificity(sRaters, W, j)]
       IN  /\ p' = pp
           /\ q' = qq
           /\ W' = EStep(sRaters, pp, qq, gT)
           /\ flag' = RmsBelowMin(pp, qq, lastP, lastQ)
           /\ lastP' = pp
           /\ lastQ' = qq
    /\ iter' = iter + 1
    /\ UNCHANGED <<sRaters, gT, maxIter, spc, threshold, conditions, segSTAPLE>>
    /\ UNCHANGED <<voteVars, evalVars>>

(* Loop exit; reference_segmentation_STAPLE = probabilities > threshold *)
StapleFinish ==
    /\ spc = "loop"
    /\ (flag \/ iter >= maxIter)
    /\ segSTAPLE' = [v \in StapleVoxels |-> IF Greater(W[v], threshold) THEN 1 ELSE 0]
    /\ spc' = "done"
    /\ UNCHANGED <<sRaters, W, p, q, lastP, lastQ, gT, iter, maxIter, flag, threshold, conditions>>
    /\ UNCHANGED <<voteVars, evalVars>>

(* ---------------------------------------------------------------------- *)
(* The whole program: one of the three computations, from its inputs.      *)
(* ---------------------------------------------------------------------- *)
vars == <<voteVars, evalVars, stapleVars>>

VoteIdle == vRaters = <<>> /\ vOut = NoVoteOutput /\ vpc = "idle"

EvalIdle ==
    /\ grid = {} /\ ref = {} /\ cand = {} /\ spacing = <<1, 1, 1>>
    /\ epc = "idle" /\ overlap = NoOverlap /\ hausdorffSq = NoObjectDist
    /\ cubeAxis = 0

StapleIdle ==
    /\ sRaters = <<>> /\ W = NoWeights
    /\ p = <<>> /\ q = <<>> /\ lastP = <<>> /\ lastQ = <<>>
    /\ gT = Num(0) /\ iter = 0 /\ maxIter = 0 /\ flag = FALSE /\ spc = "idle"
    /\ threshold = Frac(1, 2) /\ conditions = {}
    /\ segSTAPLE = [v \in StapleVoxels |-> 0]

Init ==
    \/ VoteInit /\ EvalIdle /\ StapleIdle
    \/ EvalInit /\ VoteIdle /\ StapleIdle
    \/ CubeInit /\ VoteIdle /\ StapleIdle
    \/ StapleInit /\ VoteIdle /\ EvalIdle

Next == Vote \/ Evaluate \/ StapleStart \/ StapleIterate \/ StapleFinish

Spec == Init /\ [][Next]_vars

(* ---------------------------------------------------------------------- *)
(* Properties of LabelVoting                                               *)
(* ---------------------------------------------------------------------- *)
VoteCount(l, v) == Cardinality({j \in 1..Len(vRaters) : vRaters[j][v] = l})

RaterLabels == {vRaters[j][v] : j \in 1..Len(vRaters), v \in VoteVoxels}

(* C1: at every voxel the majority vote output is the label with strictly *)
(* more votes than every other label, and the undecided label when two or *)
(* more labels tie for the maximum count.                                 *)
MajorityVoteStrictWinner ==
    vpc = "done" =>
      \A v \in VoteVoxels :
        IF \E l \in RaterLabels :
             \A m \in RaterLabels \ {l} : VoteCount(l, v) > VoteCount(m, v)
        THEN \E l \in RaterLabels :
               /\ \A m \in RaterLabels \ {l} : VoteCount(l, v) > VoteCount(m, v)
               /\ vOut[v] = l
        ELSE vOut[v] = labelForUndecidedPixels

(* Witness of C1: three raters and a voxel where labels tie. *)
MajorityVoteTieWitness ==
    /\ vpc = "done"
    /\ Len(vRaters) = 3
    /\ \E v \in VoteVoxels : vOut[v] = labelForUndecidedPixels

AgreeEverywhere == \A v \in VoteVoxels : vRaters[1][v] = vRaters[2][v]
DisagreeEverywhere == \A v \in VoteVoxels : vRaters[1][v] # vRaters[2][v]

(* C2: with two raters, agreement everywhere gives their common grid with *)
(* no undecided voxel; disagreement everywhere gives undecided everywhere. *)
TwoRaterVote ==
    (vpc = "done" /\ Len(vRaters) = 2) =>
      /\ AgreeEverywhere =>
           (vOut = vRaters[1] /\ \A v \in VoteVoxels : vOut[v] # labelForUndecidedPixels)
      /\ DisagreeEverywhere =>
           \A v \in VoteVoxels : vOut[v] = labelForUndecidedPixels

(* Witness of C2: two raters that disagree at every voxel. *)
TwoRaterDisagreeWitness ==
    vpc = "done" /\ Len(vRaters) = 2 /\ DisagreeEverywhere

(* ---------------------------------------------------------------------- *)
(* Properties of the overlap and Hausdorff measures                        *)
(* ---------------------------------------------------------------------- *)
OverlapComputed == epc \in {"done", "hausdorff_error"}

InUnit(x) == x.t = "r" /\ 0 <= x.n /\ x.n <= x.d

LessEq(x, y) == x.t = "r" /\ y.t = "r" /\ x.n * y.d <= y.n * x.d

(* C3: Dice and Jaccard lie in [0,1], Dice >= Jaccard and                 *)
(* Dice = 2*Jaccard/(1+Jaccard), for every pair of binary grids.          *)
DiceJaccardRelation ==
    OverlapComputed =>
      LET J == overlap.jaccard
          D == overlap.dice
      IN  /\ InUnit(J) /\ InUnit(D)
          /\ LessEq(J, D)
          /\ D.n * (J.d + J.n) = 2 * J.n * D.d

(* C4: comparing a non-empty grid with itself gives Dice 1, Jaccard 1 and *)
(* Hausdorff distance 0.                                                  *)
SelfComparison ==
    (epc = "done" /\ ref = cand /\ ref # {}) =>
      /\ overlap.jaccard = Num(1)
      /\ overlap.dice = Num(1)
      /\ hausdorffSq = Dist(0)

(* Witness of C4: a grid with several foreground voxels against itself.   *)
SelfComparisonWitness ==
    epc = "done" /\ ref = cand /\ Cardinality(ref) >= 2

(* C5: volume similarity is antisymmetric, lies in [-2,2] and is 0        *)
(* exactly when the two volumes are equal, when one grid is non-empty.    *)
VolumeSimilarityAntisymmetric ==
    (OverlapComputed /\ ref \cup cand # {}) =>
      LET vs == overlap.volume_similarity
          swapped == OverlapMeasures(cand, ref).volume_similarity
      IN  /\ vs.t = "r"
          /\ swapped = Neg(vs)
          /\ -2 * vs.d <= vs.n /\ vs.n <= 2 * vs.d
          /\ (vs.n = 0 <=> Cardinality(ref) = Cardinality(cand))

(* Witness of C5: two non-empty grids of different volumes.               *)
VolumeSimilarityWitness ==
    /\ OverlapComputed /\ ref # {} /\ cand # {}
    /\ Cardinality(ref) # Cardinality(cand)

(* Finite, non-NaN value: a number or the DBL_MAX fallback.                *)
Defined(x) == x.t \in {"r", "max"}

(* C6: for two empty grids Jaccard and Dice evaluate to one single         *)
(* defined fallback value (no NaN, no infinity from a division by zero);  *)
(* the false negative error for an empty reference, the false positive    *)
(* error for an empty candidate and the volume similarity for two empty   *)
(* grids each evaluate to a defined fallback value.                        *)
DegenerateOverlapFallback ==
    OverlapComputed =>
      /\ ref \cup cand = {} =>
           /\ overlap.jaccard = overlap.dice /\ Defined(overlap.jaccard)
           /\ Defined(overlap.volume_similarity)
      /\ ref = {} => Defined(overlap.false_negative)
      /\ cand = {} => Defined(overlap.false_positive)


(* C7: a cube against the same cube shifted by one voxel along one axis:  *)
(* Dice < 1, Hausdorff distance = spacing along that axis, equal false    *)
(* positive and false negative errors.                                    *)
ShiftedCube ==
    (epc = "done" /\ cubeAxis \in 1..3) =>
      /\ overlap.dice.t = "r" /\ overlap.dice.n < overlap.dice.d
      /\ hausdorffSq = Dist(spacing[cubeAxis] * spacing[cubeAxis])
      /\ overlap.false_positive = overlap.false_negative

(* Witness of C7: a side-2 cube with anisotropic spacing.                 *)
ShiftedCubeWitness ==
    /\ epc = "done" /\ Cardinality(ref) = 8
    /\ spacing[cubeAxis] = 3 /\ \E k \in 1..3 : spacing[k] = 1

(* ---------------------------------------------------------------------- *)
(* Properties of STAPLE                                                    *)
(* ---------------------------------------------------------------------- *)
IdenticalRaters == \A j \in 1..Len(sRaters) : sRaters[j] = sRaters[1]

(* C8: when all raters supply the same grid G, the STAPLE probabilities   *)
(* thresholded at 0.5 equal G at every voxel.                             *)
StapleRoundTrip ==
    (spc = "done" /\ threshold = Frac(1, 2) /\ IdenticalRaters) =>
      segSTAPLE = sRaters[1]

InOpenUnit(x) == x.t = "r" /\ 0 < x.n /\ x.n < x.d

(* C10: after every EM iteration each p_j and q_j lies strictly inside    *)
(* (0,1) (in [eps, 1-eps]) and every W_v lies in [0,1].                   *)
StapleParametersClamped ==
    (spc \in {"loop", "done"} /\ iter >= 1) =>
      /\ \A j \in 1..Len(sRaters) : InOpenUnit(p[j]) /\ InOpenUnit(q[j])
      /\ \A v \in StapleVoxels : InUnit(W[v])

(* C9 as stated: the EM loop stops within maxIterations and, when the cap *)
(* is reached without convergence, reports a NonConvergence condition.    *)
StapleNonConvergenceReported ==
    spc = "done" =>
      /\ iter <= maxIter
      /\ (~flag => "NonConvergence" \in conditions)

====
